---------------------------- MODULE Spec2Model ----------------------------
(***************************************************************************)
(* The retrieval-augmented indexing and query pipeline of the Document     *)
(* Analyzer: src/rag/ingest.py (ingestion), src/rag/rag.py (retrieval and  *)
(* answering) and the Streamlit script src/app.py that drives them (Ingest *)
(* Documents, Reset Index, Ask).                                           *)
(*                                                                         *)
(* Every click reruns main() top to bottom in the clicking session, so a   *)
(* handler is: the clicked widget's work, then the retriever section of    *)
(* main() (app.py 164-181).  A handler is split into steps at the places   *)
(* where it reads or writes the index directory, so that sessions of the   *)
(* same server can interleave there.                                       *)
(***************************************************************************)
EXTENDS Integers, Sequences, FiniteSets, TLC

\* ------------------------------------------------------------------ bounds
MaxIds == 6       \* chunk ids (uuid4 values) handed out in one behaviour
MaxBatch == 2     \* files uploaded in one ingestion batch
MaxConcIds == 3   \* chunk ids handed out while sessions interleave

\* ------------------------------------------------------- program constants
SliderMin == 1    \* st.slider("Top-K Chunks", 1, 12, 4)
SliderMax == 12
DefaultK == 4

Sessions == {"s1", "s2"}

\* ------------------------------------------------------------ the uploads
\* What PyPDFLoader(path).load() gives for each upload: its pages in order,
\* a page being the passages RecursiveCharacterTextSplitter cuts it into.
PdfPages ==
  [a |-> << <<"a1", "a2">>, <<"a3">> >>,
   b |-> << <<"b1">> >>,
   e |-> << >>,
   x |-> << >>]

\* Uploads on which PyPDFLoader.load() raises.
Corrupt == {"x"}

Uploads == DOMAIN PdfPages

RECURSIVE SeqsUpTo(_, _)
SeqsUpTo(S, n) ==
  IF n = 0 THEN {<<>>}
  ELSE LET shorter == SeqsUpTo(S, n - 1)
       IN shorter \cup {Append(t, x) : t \in shorter, x \in S}

\* st.file_uploader(accept_multiple_files=True); the Ingest button is
\* disabled while nothing is uploaded.
Batches == SeqsUpTo(Uploads, MaxBatch) \ {<<>>}

\* --------------------------------------------------------------- embedder
\* OpenAIEmbeddings: text -> vector of fixed dimensionality.
Embed(text) ==
  CASE text = "a1" -> <<0, 0>>
    [] text = "a2" -> <<1, 0>>
    [] text = "a3" -> <<0, 2>>
    [] text = "b1" -> <<1, 0>>
    [] text = "q1" -> <<0, 0>>
    [] text = "q2" -> <<2, 2>>

Questions == {"q1", "q2"}

\* What the generation service may answer.
Responses == {"I don't know", "grounded answer"}

\* ------------------------------------------------------------- the disk
Root == "."
PathOrder == <<"index.faiss", "index.pkl", "sub", "sub/deep", "sub/deep/g", "sub/f">>
Entries == {PathOrder[i] : i \in 1..Len(PathOrder)}
Paths == {Root} \cup Entries

Parent(p) ==
  CASE p = "sub/deep" -> "sub"
    [] p = "sub/deep/g" -> "sub/deep"
    [] p = "sub/f" -> "sub"
    [] OTHER -> Root

AbsentEntry == [kind |-> "absent", data |-> <<>>]
DirEntry == [kind |-> "dir", data |-> <<>>]
FileEntry(d) == [kind |-> "file", data |-> d]

NoDisk == [p \in Paths |-> AbsentEntry]

Exists(d, p) == d[p].kind # "absent"

\* Path.mkdir(parents=True, exist_ok=True) on INDEX_DIR.
ensure_index(d) == [d EXCEPT ![Root] = DirEntry]

\* INDEX_DIR.glob("**/*"): every entry below the directory, not the directory.
Glob(d) == {p \in Entries : Exists(d, p)}

\* ------------------------------------------------------------ ingestion
RECURSIVE Flatten(_)
Flatten(ss) == IF ss = <<>> THEN <<>> ELSE Head(ss) \o Flatten(Tail(ss))

\* PyPDFLoader(path).load(): one document per page, page numbers from 0.
LoadPdf(f) ==
  [i \in 1..Len(PdfPages[f]) |->
     [source |-> f, page |-> i - 1, passages |-> PdfPages[f][i]]]

\* _load_pdfs drained by list(): the first corrupt upload raises and nothing
\* is returned.
LoadPdfs(paths) ==
  IF \E i \in 1..Len(paths) : paths[i] \in Corrupt
    THEN [ok |-> FALSE, docs |-> <<>>]
    ELSE [ok |-> TRUE,
          docs |-> Flatten([i \in 1..Len(paths) |-> LoadPdf(paths[i])])]

\* _split_docs: each page's passages in order, with the page's metadata.
SplitDocs(raw) ==
  Flatten([i \in 1..Len(raw) |->
     [j \in 1..Len(raw[i].passages) |->
        [text |-> raw[i].passages[j], source |-> raw[i].source, page |-> raw[i].page]]])

ChunkCount(paths) ==
  LET r == LoadPdfs(paths) IN IF r.ok THEN Len(SplitDocs(r.docs)) ELSE 0

\* FAISS.__add: a fresh uuid4 per text, in order.
Stamp(docs, first) ==
  [i \in 1..Len(docs) |->
     [id |-> first + i - 1, text |-> docs[i].text,
      source |-> docs[i].source, page |-> docs[i].page]]

EmptyStore == [loaded |-> FALSE, vecs |-> <<>>, docs |-> <<>>]

\* Mutant: chunks whose text the store already holds are skipped.
AddDocumentsDeduplicated(store, docs, first) ==
  LET kept == SelectSeq(docs, LAMBDA d :
                \A i \in 1..Len(store.docs) : store.docs[i].text # d.text)
  IN [loaded |-> TRUE,
      vecs |-> store.vecs \o [i \in 1..Len(kept) |-> Embed(kept[i].text)],
      docs |-> store.docs \o Stamp(kept, first)]

\* Mutant: the new chunks are put in front of the ones already there.
AddDocumentsInFront(store, docs, first) ==
  [loaded |-> TRUE,
   vecs |-> [i \in 1..Len(docs) |-> Embed(docs[i].text)] \o store.vecs,
   docs |-> Stamp(docs, first) \o store.docs]

\* FAISS.from_documents / vs.add_documents: embed, then add in order.
AddDocuments(store, docs, first) ==
  [loaded |-> TRUE,
   vecs |-> store.vecs \o [i \in 1..Len(docs) |-> Embed(docs[i].text)],
   docs |-> store.docs \o Stamp(docs, first)]

\* FAISS.load_local: reads index.faiss, then index.pkl; raises if either is
\* missing, checks nothing else.
LoadLocal(d) ==
  IF d["index.faiss"].kind = "file" /\ d["index.pkl"].kind = "file"
    THEN [ok |-> TRUE,
          store |-> [loaded |-> TRUE, vecs |-> d["index.faiss"].data,
                     docs |-> d["index.pkl"].data]]
    ELSE [ok |-> FALSE, store |-> EmptyStore]

\* ---------------------------------------------------------- reset index
Sorted(S) == SelectSeq(PathOrder, LAMBDA p : p \in S)
Reverse(q) == [i \in 1..Len(q) |-> q[Len(q) + 1 - i]]

\* sorted(INDEX_DIR.glob("**/*"), reverse=True): children before parents.
RmdirOrder(d) == Reverse(Sorted(Glob(d)))

\* What p.unlink() raises: a missing path is FileNotFoundError everywhere; a
\* directory is IsADirectoryError on Linux and PermissionError on macOS and
\* Windows.
UnlinkError(d, p, plat) ==
  CASE d[p].kind = "absent" -> "FileNotFoundError"
    [] d[p].kind = "dir" -> IF plat = "posix" THEN "IsADirectoryError"
                                              ELSE "PermissionError"
    [] OTHER -> "none"

\* Lines 56-59: only IsADirectoryError is caught.
UnlinkCaught(err) == err = "IsADirectoryError"

\* Lines 62-66: p.rmdir() where p.is_dir(); OSError (not empty, gone) passes.
Rmdir(d, p) ==
  IF d[p].kind = "dir" /\ ~\E c \in Entries : Parent(c) = p /\ Exists(d, c)
    THEN [d EXCEPT ![p] = AbsentEntry]
    ELSE d

\* ------------------------------------------------------ retrieval, answer
\* Mutant: the slider's k is not passed on; the retriever keeps its default.
load_retriever_default_k(d, k) ==
  LET r == LoadLocal(d)
  IN [ok |-> r.ok, retriever |-> [store |-> r.store, k |-> DefaultK]]

\* load_retriever: FAISS.load_local, then as_retriever(search_kwargs={"k": k}).
load_retriever(d, k) ==
  LET r == LoadLocal(d)
  IN [ok |-> r.ok, retriever |-> [store |-> r.store, k |-> k]]

\* IndexFlatL2: squared Euclidean distance.
Dist(u, v) == (u[1] - v[1]) * (u[1] - v[1]) + (u[2] - v[2]) * (u[2] - v[2])

\* index.search(vector, k): the k nearest positions, nearest first, the
\* earlier position first among equals; fewer when the index holds fewer.
RECURSIVE Nearest(_, _, _, _)
Nearest(vecs, S, qv, k) ==
  IF k = 0 \/ S = {} THEN <<>>
  ELSE LET best == CHOOSE i \in S : \A j \in S :
                     \/ Dist(vecs[i], qv) < Dist(vecs[j], qv)
                     \/ Dist(vecs[i], qv) = Dist(vecs[j], qv) /\ i <= j
       IN <<best>> \o Nearest(vecs, S \ {best}, qv, k - 1)

\* retriever.get_relevant_documents: similarity_search looks each position up
\* in index_to_docstore_id, a KeyError where the pickle holds no such position.
get_relevant_documents(r, question) ==
  LET found == Nearest(r.store.vecs, DOMAIN r.store.vecs, Embed(question), r.k)
  IN IF \E i \in 1..Len(found) : found[i] > Len(r.store.docs)
       THEN [ok |-> FALSE, docs |-> <<>>]
       ELSE [ok |-> TRUE, docs |-> [i \in 1..Len(found) |-> r.store.docs[found[i]]]]

RECURSIVE Join(_, _)
Join(parts, sep) ==
  IF parts = <<>> THEN <<>>
  ELSE IF Len(parts) = 1 THEN <<parts[1]>>
  ELSE <<parts[1], sep>> \o Join(Tail(parts), sep)

\* answer_question, line 29: "\n\n".join(d.page_content for d in docs).
Context(ds) == Join([i \in 1..Len(ds) |-> ds[i].text], "\n\n")

\* answer_question, lines 30-37: the messages sent to llm.invoke, strings as
\* the sequence of the pieces they are formatted from.
Messages(ds, question) ==
  <<[role |-> "system", content |-> <<"answer strictly from the context">>],
    [role |-> "user",
     content |-> <<"Context:\n">> \o Context(ds) \o <<"\n\nQuestion: ", question>>]>>

\* Mutant: the sources are put in another order after generation.
QAResultReordered(response, ds) == [answer |-> response, sources |-> Reverse(ds)]

\* answer_question, lines 38-40: QAResult(answer=response.content, sources=docs).
QAResult(response, ds) == [answer |-> response, sources |-> ds]

VARIABLES
  disk,      \* the index directory: path -> entry
  platform,  \* "posix" or "nt": decides what unlink() of a directory raises
  nextId,    \* the next unused chunk id
  pc,        \* per session: where its script run stands
  op,        \* per session: the button that started the run
  run,       \* per session: the locals of the run in progress
  ready,     \* per session: st.session_state["retriever_ready"]
  ask,       \* per session: the question box and the Top-K slider
  out,       \* per session: what the last run showed
  overlap    \* history: an ingestion began while another was in progress

vars == <<disk, platform, nextId, pc, op, run, ready, ask, out, overlap>>

NoOut == [status |-> "none", sources |-> <<>>, answer |-> ""]
Shown(status) == [NoOut EXCEPT !.status = status]

NoAsk == [question |-> "", k |-> DefaultK]
NoRetriever == [store |-> EmptyStore, k |-> DefaultK]

\* The locals of a run; "before" is history: the disk as the run found it.
NoRun ==
  [batch |-> <<>>, docs |-> <<>>, vs |-> EmptyStore,
   unlink |-> {}, rmdir |-> <<>>,
   retriever |-> NoRetriever, hits |-> <<>>, request |-> <<>>, reply |-> "",
   before |-> NoDisk]

\* What an entry is when it is there: "sub" and "sub/deep" are directories
\* left in the index directory, the others files; the index files hold the
\* index of an earlier ingestion of upload b by another process.
Present(p) ==
  CASE p \in {Root, "sub", "sub/deep"} -> DirEntry
    [] p = "index.faiss" -> FileEntry(<<Embed("b1")>>)
    [] p = "index.pkl" -> FileEntry(Stamp(SplitDocs(LoadPdfs(<<"b">>).docs), 0))
    [] OTHER -> FileEntry(<<>>)

\* The directory trees a file system can hold at the index path.
Trees ==
  {[p \in Paths |-> IF p \in S THEN Present(p) ELSE AbsentEntry] :
     S \in {T \in SUBSET Paths : \A p \in T \ {Root} : Parent(p) \in T}}

\* A first start (no directory), or a directory that already holds a
\* subdirectory with a file in it.
Leftover == [NoDisk EXCEPT ![Root] = DirEntry, !["sub"] = DirEntry,
                           !["sub/f"] = FileEntry(<<>>)]

Fresh(d) ==
  /\ disk = d
  /\ platform \in {"posix", "nt"}
  /\ nextId = 1
  /\ pc = [s \in Sessions |-> "idle"]
  /\ op = [s \in Sessions |-> "none"]
  /\ run = [s \in Sessions |-> NoRun]
  /\ ready = [s \in Sessions |-> FALSE]
  /\ ask = [s \in Sessions |-> NoAsk]
  /\ out = [s \in Sessions |-> NoOut]
  /\ overlap = FALSE

Init == \E d \in {NoDisk, Leftover} : Fresh(d)

IngestPcs == {"load", "exists", "loadlocal", "add", "fresh", "save_faiss", "save_pkl"}

\* Ids the ingestions in progress will still draw.
Reserved ==
  LET F[S \in SUBSET Sessions] ==
        IF S = {} THEN 0
        ELSE LET s == CHOOSE t \in S : TRUE
             IN (IF pc[s] \in {"load", "exists", "loadlocal", "add", "fresh"}
                   THEN ChunkCount(run[s].batch) ELSE 0) + F[S \ {s}]
  IN F[Sessions]

\* A run begins, on a fresh page and with fresh locals.
Begin(s, button, b) ==
  /\ pc[s] = "idle"
  /\ op' = [op EXCEPT ![s] = button]
  /\ run' = [run EXCEPT ![s] = [NoRun EXCEPT !.batch = b, !.before = disk]]
  /\ out' = [out EXCEPT ![s] = NoOut]

\* The run ends, by an exception (Streamlit shows it and the script stops) or
\* at the end of main(); its locals are gone.
End(s, shown) ==
  /\ pc' = [pc EXCEPT ![s] = "idle"]
  /\ out' = [out EXCEPT ![s] = shown]
  /\ run' = [run EXCEPT ![s] = NoRun]

Raise(s, error) == End(s, Shown(error))

\* ---------------------------------------------- "Ingest Documents" clicked
\* main(), lines 151-154: ensure_index(INDEX_DIR), save_uploaded_files.
IngestBegin(s, b) ==
  /\ Begin(s, "ingest", b)
  /\ nextId + Reserved + ChunkCount(b) <= MaxIds + 1
  /\ pc' = [pc EXCEPT ![s] = "load"]
  /\ disk' = ensure_index(disk)
  /\ overlap' = (overlap \/ \E t \in Sessions \ {s} : pc[t] \in IngestPcs)
  /\ UNCHANGED <<platform, nextId, ready, ask>>

\* add_pdfs_to_index, lines 33-39: ensure_index, load, return if nothing was
\* loaded (main() then sets retriever_ready), split.
IngestLoad(s) ==
  /\ pc[s] = "load"
  /\ LET r == LoadPdfs(run[s].batch) IN
       IF ~r.ok
         THEN /\ Raise(s, "LoaderError")
              /\ UNCHANGED ready
         ELSE IF r.docs = <<>>
           THEN /\ pc' = [pc EXCEPT ![s] = "retr"]
                /\ ready' = [ready EXCEPT ![s] = TRUE]
                /\ UNCHANGED <<out, run>>
           ELSE /\ pc' = [pc EXCEPT ![s] = "exists"]
                /\ run' = [run EXCEPT ![s].docs = SplitDocs(r.docs)]
                /\ UNCHANGED <<out, ready>>
  /\ disk' = ensure_index(disk)
  /\ UNCHANGED <<platform, nextId, op, ask, overlap>>

\* Mutant: the existing index is never looked for; every ingestion starts a
\* fresh one.
IngestExistsNever(s) ==
  /\ pc[s] = "exists"
  /\ pc' = [pc EXCEPT ![s] = "fresh"]
  /\ UNCHANGED <<disk, platform, nextId, op, run, ready, ask, out, overlap>>

\* Line 42: (index_dir / "index.faiss").exists().
IngestExists(s) ==
  /\ pc[s] = "exists"
  /\ pc' = [pc EXCEPT ![s] =
              IF Exists(disk, "index.faiss") THEN "loadlocal" ELSE "fresh"]
  /\ UNCHANGED <<disk, platform, nextId, op, run, ready, ask, out, overlap>>

\* Line 43: FAISS.load_local.
IngestLoadLocal(s) ==
  /\ pc[s] = "loadlocal"
  /\ LET r == LoadLocal(disk) IN
       IF r.ok
         THEN /\ run' = [run EXCEPT ![s].vs = r.store]
              /\ pc' = [pc EXCEPT ![s] = "add"]
              /\ UNCHANGED out
         ELSE Raise(s, "LoadError")
  /\ UNCHANGED <<disk, platform, nextId, op, ready, ask, overlap>>

\* The embedding call inside add_documents / from_documents succeeds or fails
\* with a service error; on success the store grows in memory.
Embedded(s, store, embedOk) ==
  IF embedOk
    THEN /\ run' = [run EXCEPT ![s].vs = AddDocuments(store, run[s].docs, nextId)]
         /\ nextId' = nextId + Len(run[s].docs)
         /\ pc' = [pc EXCEPT ![s] = "save_faiss"]
         /\ UNCHANGED out
    ELSE /\ Raise(s, "ServiceError")
         /\ UNCHANGED nextId

\* Mutant: the vectors embedded before the failure are flushed to index.faiss.
IngestAddFlushesPartial(s, embedOk) ==
  /\ pc[s] = "add"
  /\ Embedded(s, run[s].vs, embedOk)
  /\ disk' = IF embedOk THEN disk
             ELSE [disk EXCEPT !["index.faiss"] =
                     FileEntry(run[s].vs.vecs \o <<Embed(run[s].docs[1].text)>>)]
  /\ UNCHANGED <<platform, op, ready, ask, overlap>>

\* Line 44: vs.add_documents(docs).
IngestAdd(s, embedOk) ==
  /\ pc[s] = "add"
  /\ Embedded(s, run[s].vs, embedOk)
  /\ UNCHANGED <<disk, platform, op, ready, ask, overlap>>

\* Line 47: FAISS.from_documents(docs, embeddings).
IngestFresh(s, embedOk) ==
  /\ pc[s] = "fresh"
  /\ Embedded(s, EmptyStore, embedOk)
  /\ UNCHANGED <<disk, platform, op, ready, ask, overlap>>

\* vs.save_local, first half: mkdir, faiss.write_index to index.faiss.
SaveFaiss(d, store) ==
  [ensure_index(d) EXCEPT !["index.faiss"] = FileEntry(store.vecs)]

\* vs.save_local, second half: pickle (docstore, index_to_docstore_id) to
\* index.pkl.
SavePkl(d, store) ==
  [d EXCEPT !["index.pkl"] = FileEntry(store.docs)]

\* Lines 45/48, first write.
IngestSaveFaiss(s) ==
  /\ pc[s] = "save_faiss"
  /\ disk' = SaveFaiss(disk, run[s].vs)
  /\ pc' = [pc EXCEPT ![s] = "save_pkl"]
  /\ UNCHANGED <<platform, nextId, op, run, ready, ask, out, overlap>>

\* Lines 45/48, second write; main() line 156 sets retriever_ready.
IngestSavePkl(s) ==
  /\ pc[s] = "save_pkl"
  /\ disk' = SavePkl(disk, run[s].vs)
  /\ pc' = [pc EXCEPT ![s] = "retr"]
  /\ ready' = [ready EXCEPT ![s] = TRUE]
  /\ UNCHANGED <<platform, nextId, op, run, ask, out, overlap>>

\* -------------------------------------------------- "Reset Index" clicked
\* Lines 53-55: the first glob is taken if the directory exists.
ResetBegin(s) ==
  /\ pc[s] = "idle"
  /\ op' = [op EXCEPT ![s] = "reset"]
  /\ out' = [out EXCEPT ![s] = NoOut]
  /\ IF Exists(disk, Root)
       THEN /\ pc' = [pc EXCEPT ![s] = "unlink"]
            /\ run' = [run EXCEPT ![s] =
                         [NoRun EXCEPT !.before = disk, !.unlink = Glob(disk)]]
       ELSE /\ pc' = [pc EXCEPT ![s] = "pop"]
            /\ run' = [run EXCEPT ![s] = [NoRun EXCEPT !.before = disk]]
  /\ UNCHANGED <<disk, platform, nextId, ready, ask, overlap>>

\* Lines 55-59: one path of the first loop, in the order the scan gives.
ResetUnlink(s, p) ==
  /\ pc[s] = "unlink"
  /\ p \in run[s].unlink
  /\ LET err == UnlinkError(disk, p, platform) IN
       IF err = "none"
         THEN /\ disk' = [disk EXCEPT ![p] = AbsentEntry]
              /\ run' = [run EXCEPT ![s].unlink = @ \ {p}]
              /\ UNCHANGED <<pc, out>>
         ELSE IF UnlinkCaught(err)
           THEN /\ run' = [run EXCEPT ![s].unlink = @ \ {p}]
                /\ UNCHANGED <<disk, pc, out>>
           ELSE /\ Raise(s, err)
                /\ UNCHANGED disk
  /\ UNCHANGED <<platform, nextId, op, ready, ask, overlap>>

\* Line 61: the second glob, sorted in reverse.
ResetListDirs(s) ==
  /\ pc[s] = "unlink"
  /\ run[s].unlink = {}
  /\ run' = [run EXCEPT ![s].rmdir = RmdirOrder(disk)]
  /\ pc' = [pc EXCEPT ![s] = IF RmdirOrder(disk) = <<>> THEN "pop" ELSE "rmdir"]
  /\ UNCHANGED <<disk, platform, nextId, op, ready, ask, out, overlap>>

\* Lines 61-66: one path of the second loop.
ResetRmdir(s) ==
  /\ pc[s] = "rmdir"
  /\ disk' = Rmdir(disk, Head(run[s].rmdir))
  /\ run' = [run EXCEPT ![s].rmdir = Tail(@)]
  /\ pc' = [pc EXCEPT ![s] = IF Len(run[s].rmdir) = 1 THEN "pop" ELSE "rmdir"]
  /\ UNCHANGED <<platform, nextId, op, ready, ask, out, overlap>>

\* Lines 67-68: retriever_ready is popped, "Index cleared." is shown.
ResetEnd(s) ==
  /\ pc[s] = "pop"
  /\ ready' = [ready EXCEPT ![s] = FALSE]
  /\ pc' = [pc EXCEPT ![s] = "retr"]
  /\ UNCHANGED <<disk, platform, nextId, op, run, ask, out, overlap>>

\* ----------------------------------------------------------- "Ask" clicked
\* A non-blank question, the Top-K slider at k.
AskBegin(s, question, k) ==
  /\ Begin(s, "ask", <<>>)
  /\ ask' = [ask EXCEPT ![s] = [question |-> question, k |-> k]]
  /\ pc' = [pc EXCEPT ![s] = "retr"]
  /\ UNCHANGED <<disk, platform, nextId, ready, overlap>>

\* main(), lines 164-181, reached by every run: load the retriever if the
\* session ingested or the directory exists; if Ask was clicked, retrieve and
\* call the generation service (answer_question, lines 26-38); otherwise the
\* "get started" note.
RetrieverSection(s) ==
  /\ pc[s] = "retr"
  /\ IF ready[s] \/ Exists(disk, Root)
       THEN LET r == load_retriever(disk, ask[s].k) IN
         IF ~r.ok
           THEN Raise(s, "LoadError")
           ELSE IF op[s] = "ask"
             THEN LET g == get_relevant_documents(r.retriever, ask[s].question) IN
               IF g.ok
                 THEN /\ run' = [run EXCEPT ![s].retriever = r.retriever,
                                            ![s].hits = g.docs,
                                            ![s].request = Messages(g.docs, ask[s].question)]
                      /\ pc' = [pc EXCEPT ![s] = "llm"]
                      /\ UNCHANGED out
                 ELSE Raise(s, "KeyError")
             ELSE End(s, Shown("loaded"))
       ELSE End(s, Shown("get started"))
  /\ UNCHANGED <<disk, platform, nextId, op, ready, ask, overlap>>

\* llm.invoke returns the generation service's text.
LlmReply(s, response) ==
  /\ pc[s] = "llm"
  /\ run' = [run EXCEPT ![s].reply = response]
  /\ pc' = [pc EXCEPT ![s] = "reply"]
  /\ UNCHANGED <<disk, platform, nextId, op, ready, ask, out, overlap>>

\* answer_question returns; main(), lines 173-179, shows answer and sources.
AnswerShown(s) ==
  /\ pc[s] = "reply"
  /\ LET qa == QAResult(run[s].reply, run[s].hits) IN
       End(s, [status |-> "answer", sources |-> qa.sources, answer |-> qa.answer])
  /\ UNCHANGED <<disk, platform, nextId, op, ready, ask, overlap>>

KChoices == {SliderMin, SliderMin + 1, DefaultK, SliderMax}

IngestSteps(s) ==
  \/ IngestLoad(s)
  \/ IngestExists(s)
  \/ IngestLoadLocal(s)
  \/ \E e \in BOOLEAN : IngestAdd(s, e)
  \/ \E e \in BOOLEAN : IngestFresh(s, e)
  \/ IngestSaveFaiss(s)
  \/ IngestSavePkl(s)

ResetSteps(s) ==
  \/ \E p \in Entries : ResetUnlink(s, p)
  \/ ResetListDirs(s)
  \/ ResetRmdir(s)
  \/ ResetEnd(s)

QuerySteps(s) ==
  \/ RetrieverSection(s)
  \/ \E r \in Responses : LlmReply(s, r)
  \/ AnswerShown(s)

\* The app used from one browser session: one run at a time.
User == "s1"

Next ==
  \/ \E b \in Batches : IngestBegin(User, b)
  \/ ResetBegin(User)
  \/ \E q \in Questions, k \in KChoices : AskBegin(User, q, k)
  \/ IngestSteps(User)
  \/ ResetSteps(User)
  \/ QuerySteps(User)

Spec == Init /\ [][Next]_vars

\* The same session when Reset Index is never clicked.
NextIngest ==
  \/ \E b \in Batches : IngestBegin(User, b)
  \/ \E q \in Questions, k \in KChoices : AskBegin(User, q, k)
  \/ IngestSteps(User)
  \/ QuerySteps(User)

SpecIngest == Init /\ [][NextIngest]_vars

\* Several sessions of one server ingesting and asking, any interleaving.
InitConc == Fresh(NoDisk) /\ platform = "posix"

NextConc ==
  \E s \in Sessions :
    \/ \E b \in {<<"b">>, <<"e">>, <<"x">>} :
         /\ nextId + Reserved + ChunkCount(b) <= MaxConcIds + 1
         /\ IngestBegin(s, b)
    \/ AskBegin(s, "q1", DefaultK)
    \/ IngestSteps(s)
    \/ QuerySteps(s)

SpecConc == InitConc /\ [][NextConc]_vars

\* Reset Index clicked in several sessions, from any tree, on Linux (where a
\* reset with nobody else about gets through).
InitReset == \E d \in Trees : Fresh(d) /\ platform = "posix"

NextReset ==
  \E s \in Sessions :
    \/ ResetBegin(s)
    \/ ResetSteps(s)
    \/ RetrieverSection(s)

SpecReset == InitReset /\ [][NextReset]_vars

\* ==================================================================== claims
Index(d) == d["index.pkl"].data
Vectors(d) == d["index.faiss"].data
Texts(ds) == [i \in 1..Len(ds) |-> ds[i].text]
Ids(ds) == {ds[i].id : i \in 1..Len(ds)}
Unstamped(ds) ==
  [i \in 1..Len(ds) |-> [text |-> ds[i].text, source |-> ds[i].source, page |-> ds[i].page]]
IsPrefix(p, q) == Len(p) <= Len(q) /\ SubSeq(q, 1, Len(p)) = p
Min(a, b) == IF a <= b THEN a ELSE b

\* The chunks of the uploads of a batch that load, in file order, then page
\* order, then passage order.
RECURSIVE PageChunks(_, _, _)
PageChunks(f, pg, from) ==
  IF from > Len(PdfPages[f][pg]) THEN <<>>
  ELSE <<[text |-> PdfPages[f][pg][from], source |-> f, page |-> pg - 1]>>
         \o PageChunks(f, pg, from + 1)
RECURSIVE FileChunks(_, _)
FileChunks(f, from) ==
  IF from > Len(PdfPages[f]) THEN <<>>
  ELSE PageChunks(f, from, 1) \o FileChunks(f, from + 1)
RECURSIVE GoodChunks(_)
GoodChunks(b) ==
  IF b = <<>> THEN <<>>
  ELSE (IF Head(b) \in Corrupt THEN <<>> ELSE FileChunks(Head(b), 1))
         \o GoodChunks(Tail(b))

Mixed(b) == /\ \E i \in 1..Len(b) : b[i] \in Corrupt
            /\ \E i \in 1..Len(b) : b[i] \notin Corrupt /\ FileChunks(b[i], 1) # <<>>

\* An ingestion run that has written its index and stands before the
\* retriever section.
Ingested(s) == op[s] = "ingest" /\ pc[s] = "retr" /\ run[s].docs # <<>>

\* C1: when the loader fails on some uploads of a batch and succeeds on
\* others, the load step does not abort the ingestion and passes on the chunks
\* of every upload that loaded.
C1_FailedFilesAreSkipped ==
  [][\A s \in Sessions :
       (pc[s] = "load" /\ pc'[s] # "load" /\ Mixed(run[s].batch))
         => /\ out'[s].status # "LoaderError"
            /\ pc'[s] = "exists"
            /\ run'[s].docs = GoodChunks(run[s].batch)]_vars

\* The step in which the embedding call of an ingestion fails.
EmbedderFails(s) == pc[s] \in {"add", "fresh"} /\ out'[s].status = "ServiceError"

\* C2 as stated: an embedder failure leaves the index path exactly as it was
\* before the ingestion began.
C2_EmbedderFailureLeavesPathAsItWas ==
  [][\A s \in Sessions : EmbedderFails(s) => disk' = run[s].before]_vars

\* C2 as amended: an embedder failure aborts the ingestion with the error
\* shown and leaves every entry below the index path (index.faiss, index.pkl,
\* anything nested) exactly as it was before the ingestion began; the index
\* directory itself exists afterwards, created empty if it was absent.
C2_EmbedderFailureLeavesEntriesAsTheyWere ==
  [][\A s \in Sessions :
       EmbedderFails(s)
         => /\ \A p \in Entries : disk'[p] = run[s].before[p]
            /\ disk'[Root] = DirEntry
            /\ pc'[s] = "idle"]_vars

C2_EmbedderFailedOnAppend ==
  \E s \in Sessions : /\ op[s] = "ingest" /\ out[s].status = "ServiceError"
                      /\ Len(Index(disk)) > 0

\* C3: while the index path holds nothing (no directory, or the directory an
\* ingestion or a reset left empty), a run started by Ask ends without a load
\* or lookup error.
C3_EmptyIndexGivesNoInformation ==
  \A s \in Sessions :
    (pc[s] = "idle" /\ op[s] = "ask" /\ Glob(disk) = {})
      => out[s].status \notin {"LoadError", "KeyError"}

\* C4: Reset Index never raises, and once it has completed nothing is left
\* below the index path.
C4_ResetNeverRaisesAndClears ==
  \A s \in Sessions :
    op[s] = "reset"
      => /\ out[s].status \notin {"FileNotFoundError", "PermissionError"}
         /\ pc[s] = "retr" => Glob(disk) = {}

\* The index path held, whole, the index of exactly the chunks being ingested.
Reingesting(s) ==
  /\ Ingested(s)
  /\ LoadLocal(run[s].before).ok
  /\ Len(Vectors(run[s].before)) = Len(Index(run[s].before))
  /\ Unstamped(Index(run[s].before)) = run[s].docs

\* C5: ingesting a document into an index that holds exactly that document's
\* n chunks leaves 2n chunks: the n texts twice, under 2n distinct ids, all
\* of them retrievable.
C5_ReingestAppendsDuplicates ==
  \A s \in Sessions :
    Reingesting(s)
      => LET idx == Index(disk)
             n == Len(run[s].docs)
             all == get_relevant_documents(
                      load_retriever(disk, 2 * n).retriever, "q1")
         IN /\ Len(idx) = 2 * n
            /\ \A i \in 1..n : idx[i].text = idx[n + i].text /\ idx[i].id # idx[n + i].id
            /\ Cardinality(Ids(idx)) = 2 * n
            /\ all.ok /\ Ids(all.docs) = Ids(idx)

C5_ReingestedThreeChunks ==
  \E s \in Sessions :
    /\ Reingesting(s)
    /\ Len(run[s].docs) = 3 /\ Len(Index(disk)) = 6

\* C6: retrieval with the slider at k from an index of n chunks returns
\* exactly min(k, n) chunks.
C6_RetrievalReturnsMinKN ==
  \A s \in Sessions :
    pc[s] \in {"llm", "reply"}
      => Len(run[s].hits) = Min(ask[s].k, Len(Index(disk)))

C6_RetrievedFewerThanIndexed ==
  \E s \in Sessions : /\ pc[s] = "llm" /\ Len(run[s].hits) = ask[s].k
                      /\ ask[s].k > 1 /\ ask[s].k < Len(Index(disk))

\* The grounding context inside the user message: between "Context:\n" and
\* "\n\nQuestion: ", question.
Grounding(messages) == SubSeq(messages[2].content, 2, Len(messages[2].content) - 2)

\* C7: the sources shown are the retrieved chunks in retrieval order, the
\* grounding context sent is their texts in that order with the delimiter
\* between them, and the answer shown is the service's reply.
C7_SourcesAreTheRetrievedChunks ==
  [][\A s \in Sessions :
       (pc[s] = "reply" /\ pc'[s] = "idle")
         => LET n == Len(run[s].hits)
                ctx == Grounding(run[s].request)
            IN /\ out'[s].sources = run[s].hits
               /\ out'[s].answer = run[s].reply
               /\ Len(ctx) = IF n = 0 THEN 0 ELSE 2 * n - 1
               /\ \A i \in 1..n : ctx[2 * i - 1] = out'[s].sources[i].text
               /\ \A i \in 1..(n - 1) : ctx[2 * i] = "\n\n"]_vars

C7_AnswerShownWithSeveralSources ==
  \E s \in Sessions :
    /\ out[s].status = "answer" /\ Len(out[s].sources) >= 2
    /\ out[s].sources[1].text # out[s].sources[2].text

\* C8: an ingestion in progress never edits, removes or reorders a chunk
\* already persisted, and a completed one has appended its batch's chunks in
\* file, page and passage order, with their vectors.
C8_IndexIsAppendOnlyInOrder ==
  \A s \in Sessions :
    /\ (op[s] = "ingest" /\ pc[s] # "idle")
         => IsPrefix(Index(run[s].before), Index(disk))
    /\ Ingested(s)
         => LET old == Index(run[s].before)
                new == SubSeq(Index(disk), Len(old) + 1, Len(Index(disk)))
            IN /\ Unstamped(new) = GoodChunks(run[s].batch)
               /\ Ids(new) \cap Ids(old) = {}
               /\ Vectors(disk) = Vectors(run[s].before)
                                    \o [i \in 1..Len(new) |-> Embed(new[i].text)]
    /\ (op[s] = "ingest" /\ pc[s] = "retr" /\ run[s].docs = <<>>)
         => Index(disk) = Index(run[s].before)

C8_AppendedTwoFilesToAnIndex ==
  \E s \in Sessions :
    /\ Ingested(s) /\ Len(Index(run[s].before)) > 0
    /\ run[s].batch = <<"b", "a">>
    /\ Len(Index(disk)) = Len(Index(run[s].before)) + 4

\* What FAISS.load_local gives is a whole index: a vector per chunk.
Complete(store) ==
  /\ Len(store.vecs) = Len(store.docs)
  /\ \A i \in 1..Len(store.docs) : store.vecs[i] = Embed(store.docs[i].text)

\* C9: a query that loads the index while an ingestion is running, or after
\* one stopped between its writes, gets a whole index.
C9_QueriesLoadAWholeIndex ==
  \A s \in Sessions :
    /\ out[s].status # "KeyError"
    /\ pc[s] \in {"llm", "reply"} => Complete(run[s].retriever.store)

\* C10: as long as no ingestion began while another was in progress, every
\* chunk an ingestion has stamped and saved is in the persisted index; with
\* overlapping ingestions a chunk can be lost (the witness).
C10_SerialIngestionsKeepEveryChunk ==
  (~overlap /\ \A s \in Sessions : pc[s] \notin {"save_faiss", "save_pkl"})
    => /\ Ids(Index(disk)) = 1..(nextId - 1)
       /\ Len(Index(disk)) = nextId - 1

C10_OverlappingIngestionsLoseAChunk ==
  /\ overlap
  /\ \A s \in Sessions : pc[s] = "idle" /\ op[s] = "ingest" /\ out[s].status = "loaded"
  /\ nextId = 3
  /\ Len(Index(disk)) = 1

=============================================================================
